---- MODULE Spec2Model ----
(***************************************************************************)
(* A model of src/src/kvraft/server.go: the key/value service layered on   *)
(* Raft.  The KVServer's fields, its two background goroutines             *)
(* (applyRoutine, broadcastRoutine) and its two RPC handlers (Get,         *)
(* PutAppend) are modelled from the code.  The Raft module and the         *)
(* persister are only called by this file: they are modelled as the        *)
(* environment, by the contract of the calls the code makes.               *)
(***************************************************************************)
EXTENDS Integers, Sequences, FiniteSets, TLC

(***************************************************************************)
(* Bounds of the model.                                                    *)
(***************************************************************************)
\* The longest committed log, where only the applier runs.
MaxLog == 3
\* The longest committed log, where calls run too.
MaxCallLog == 2
\* The highest Raft term.
MaxTerm == 1
\* The longest committed log, where two calls run at a time.
MaxLockLog == 1

(***************************************************************************)
(* Program constants.                                                      *)
(***************************************************************************)
\* time.Now().Add(500 * time.Millisecond)
TimeoutMs == 500
\* time.Sleep(250 * time.Millisecond)
SleepMs == 250
\* kv.term = 1
InitialTerm == 1
\* "if maxraftstate is -1, you don't need to snapshot"
NoSnapshot == -1

\* The time step of the model: one sleep of broadcastRoutine.  A call that
\* computes its timeout at a tick waits longest: its deadline falls on a
\* tick, where time.Now().After(timeout) is still false.
Quantum == SleepMs
\* Beyond this a handler's clock is not read any more.
TimerCap == TimeoutMs + SleepMs + Quantum

(***************************************************************************)
(* The client requests.  An id names one logical request (a retry carries  *)
(* the same id), so a request is determined by its id.  Id 0 is an int64   *)
(* like any other.                                                         *)
(***************************************************************************)
Requests ==
  { [Id |-> 0, Key |-> "x", Value |-> "a", Op |-> "Append"],
    [Id |-> 1, Key |-> "x", Value |-> "b", Op |-> "Put"],
    [Id |-> 2, Key |-> "y", Value |-> "c", Op |-> "Append"],
    [Id |-> 3, Key |-> "x", Value |-> "",  Op |-> "Get"] }

\* The thresholds StartKVServer is given, and the sizes the persister reports.
Thresholds == {NoSnapshot, 1}
Sizes == {1, 2}

Handlers == {"h1", "h2"}

\* The Op zero value.
ZeroOp == [Id |-> 0, Key |-> "", Value |-> "", Op |-> ""]

(***************************************************************************)
(* Go maps: a function on the keys present.  A lookup of an absent key     *)
(* gives the zero value of the element type.                               *)
(***************************************************************************)
EmptyMap == << >>

Lookup(m, k, zero) == IF k \in DOMAIN m THEN m[k] ELSE zero

Store(m, k, v) == [x \in DOMAIN m \cup {k} |-> IF x = k THEN v ELSE m[x]]

(***************************************************************************)
(* labgob: the Snapshot struct goes out field by field, each map as its    *)
(* count and its key/element pairs; a nil map is not sent.  The maps of a  *)
(* KVServer are never nil (StartKVServer makes them).                      *)
(***************************************************************************)
EncodeMap(m) ==
  [n |-> Cardinality(DOMAIN m), pairs |-> {<<k, m[k]>> : k \in DOMAIN m}]

DecodeMap(e) ==
  [k \in {p[1] : p \in e.pairs} |-> (CHOOSE p \in e.pairs : p[1] = k)[2]]

Encode(snapshot) ==
  << [field |-> 1, map |-> EncodeMap(snapshot.State)],
     [field |-> 2, map |-> EncodeMap(snapshot.Index)],
     [field |-> 3, map |-> EncodeMap(snapshot.Applied)] >>

\* Bytes no decoder accepts.
CorruptBytes == << [field |-> 0, map |-> EncodeMap(EmptyMap)] >>

DecodeOk(bytes) == \A i \in 1..Len(bytes) : bytes[i].field \in {1, 2, 3}

DecodeField(bytes, f) ==
  IF \E i \in 1..Len(bytes) : bytes[i].field = f
  THEN DecodeMap(bytes[CHOOSE i \in 1..Len(bytes) : bytes[i].field = f].map)
  ELSE EmptyMap

Decode(bytes) ==
  [State   |-> DecodeField(bytes, 1),
   Index   |-> DecodeField(bytes, 2),
   Applied |-> DecodeField(bytes, 3)]

(***************************************************************************)
(* The three maps of a KVServer as one value, and the pure parts of        *)
(* applyRoutine, snapshot and readPersist on it.                           *)
(***************************************************************************)
EmptyStore == [State |-> EmptyMap, Index |-> EmptyMap, Applied |-> EmptyMap]

\* A mutant: Append puts the new value in front.
ApplyOpPrepend(st, command) ==
  CASE command.Op = "Put" -> Store(st, command.Key, command.Value)
    [] command.Op = "Append" ->
         Store(st, command.Key, command.Value \o Lookup(st, command.Key, ""))
    [] OTHER -> st

\* switch op { case "Put": ...; case "Append": ... }
ApplyOp(st, command) ==
  CASE command.Op = "Put" -> Store(st, command.Key, command.Value)
    [] command.Op = "Append" ->
         Store(st, command.Key, Lookup(st, command.Key, "") \o command.Value)
    [] OTHER -> st

\* A mutant: the applied check is dropped.
ApplyDedupNoCheck(s, command) ==
  [s EXCEPT !.State = ApplyOp(s.State, command),
            !.Applied = Store(s.Applied, command.Id, TRUE)]

\* if !kv.applied[id] { ...; kv.applied[id] = true }
ApplyDedup(s, command) ==
  IF ~Lookup(s.Applied, command.Id, FALSE)
  THEN [s EXCEPT !.State = ApplyOp(s.State, command),
                 !.Applied = Store(s.Applied, command.Id, TRUE)]
  ELSE s

\* A mutant: the tracker keeps the last position only.
RecordIndexLastOnly(s, commandIndex, id) ==
  [s EXCEPT !.Index = Store(EmptyMap, commandIndex, id)]

\* kv.index[commandIndex] = id
RecordIndex(s, commandIndex, id) ==
  [s EXCEPT !.Index = Store(s.Index, commandIndex, id)]

\* Lines 103-121: the maps after a Command message.
ApplyCommand(s, command, commandIndex) ==
  RecordIndex(ApplyDedup(s, command), commandIndex, command.Id)

\* A mutant: the snapshot leaves kv.index out.
SnapshotBytesNoIndex(s) ==
  Encode([State |-> s.State, Index |-> EmptyMap, Applied |-> s.Applied])

\* A mutant: the snapshot leaves kv.applied out.
SnapshotBytesNoApplied(s) ==
  Encode([State |-> s.State, Index |-> s.Index, Applied |-> EmptyMap])

\* The bytes kv.snapshot hands to rf.Snapshot.
SnapshotBytes(s) ==
  Encode([State |-> s.State, Index |-> s.Index, Applied |-> s.Applied])

\* A mutant: a log as large as the threshold is snapshotted too.
ShouldSnapshotAtLeast(threshold, size) ==
  threshold # NoSnapshot /\ size >= threshold

\* if kv.maxraftstate != -1 && kv.persister.RaftStateSize() > kv.maxraftstate
ShouldSnapshot(threshold, size) == threshold # NoSnapshot /\ size > threshold

\* A mutant: readPersist does not replace kv.applied.
ReadPersistKeepApplied(s, bytes) ==
  IF Len(bytes) < 1 THEN s
  ELSE [State   |-> Decode(bytes).State,
        Index   |-> Decode(bytes).Index,
        Applied |-> s.Applied]

\* readPersist: the maps after it, when it does not panic.
ReadPersist(s, bytes) ==
  IF Len(bytes) < 1 THEN s
  ELSE [State   |-> Decode(bytes).State,
        Index   |-> Decode(bytes).Index,
        Applied |-> Decode(bytes).Applied]

\* A mutant: a decode error is not looked at.
ReadPersistNeverPanics(bytes) == FALSE

\* readPersist panics.
ReadPersistPanics(bytes) == Len(bytes) >= 1 /\ ~DecodeOk(bytes)

(***************************************************************************)
(* The state.                                                              *)
(***************************************************************************)
VARIABLES
  \* KVServer
  state,          \* kv.state
  index,          \* kv.index
  applied,        \* kv.applied
  term,           \* kv.term
  dead,           \* kv.dead
  maxraftstate,   \* kv.maxraftstate
  mu,             \* who holds kv.mu: "free", "applier" or a handler
  \* applyRoutine
  apc,            \* where it is: "check", "recv", "lock", "apply", "exit"
  applyMsg,       \* the message it has received
  \* broadcastRoutine
  bpc,            \* "run" or "exit"
  sleep,          \* what is left of its time.Sleep
  \* Get and PutAppend calls
  hpc,            \* "idle", "locked", "waiting", "woken", "check", "done"
  hreq,           \* the call's arguments
  hidx,           \* the index rf.Start returned
  timer,          \* the time since the call computed its timeout
  reply,          \* the reply of a call that has returned
  \* the process
  run,            \* "up", or "aborted" after a panic
  \* Raft and the persister
  log,            \* the committed log, the same on every replica
  delivered,      \* the last position Raft has handed to this replica
  rfTerm,         \* rf.currentTerm
  persisted,      \* persister.ReadSnapshot(), and the position it covers
  raftStateSize   \* persister.RaftStateSize()

kvVars == <<state, index, applied, term, dead, maxraftstate, mu>>
taskVars == <<apc, applyMsg, bpc, sleep>>
callVars == <<hpc, hreq, hidx, timer, reply>>
envVars == <<log, delivered, rfTerm, persisted, raftStateSize>>
vars == <<kvVars, taskVars, callVars, envVars, run>>

\* The three maps as one value.
Maps == [State |-> state, Index |-> index, Applied |-> applied]

\* raft.ApplyMsg
NoMsg ==
  [CommandValid |-> FALSE, Command |-> ZeroOp, CommandIndex |-> 0,
   SnapshotValid |-> FALSE, Snapshot |-> << >>, SnapshotTerm |-> 0,
   SnapshotIndex |-> 0]

CommandMsg(command, commandIndex) ==
  [NoMsg EXCEPT !.CommandValid = TRUE, !.Command = command,
                !.CommandIndex = commandIndex]

SnapshotMsg(bytes, snapshotTerm, snapshotIndex) ==
  [NoMsg EXCEPT !.SnapshotValid = TRUE, !.Snapshot = bytes,
                !.SnapshotTerm = snapshotTerm, !.SnapshotIndex = snapshotIndex]

NoReply == [Err |-> "", Value |-> ""]

\* A replica that has applied the first n entries of the log with this code.
RECURSIVE Replay(_, _)
Replay(lg, n) ==
  IF n = 0 THEN EmptyStore ELSE ApplyCommand(Replay(lg, n - 1), lg[n], n)

\* StartKVServer with a given persister: lines 279-295.
Started(bytes) ==
  /\ state = ReadPersist(EmptyStore, bytes).State
  /\ index = ReadPersist(EmptyStore, bytes).Index
  /\ applied = ReadPersist(EmptyStore, bytes).Applied
  /\ term = InitialTerm
  /\ dead = FALSE
  /\ mu = "free"
  /\ apc = "check"
  /\ applyMsg = NoMsg
  /\ bpc = "run"
  /\ sleep = 0
  /\ hpc = [h \in Handlers |-> "idle"]
  /\ hreq = [h \in Handlers |-> ZeroOp]
  /\ hidx = [h \in Handlers |-> 0]
  /\ timer = [h \in Handlers |-> 0]
  /\ reply = [h \in Handlers |-> NoReply]
  /\ run = IF ReadPersistPanics(bytes) THEN "aborted" ELSE "up"

InitApply ==
  /\ maxraftstate \in Thresholds
  /\ log = << >>
  /\ delivered = 0
  /\ rfTerm = 0
  /\ persisted = [index |-> 0, bytes |-> << >>]
  /\ raftStateSize \in Sizes
  /\ Started(<< >>)

(***************************************************************************)
(* Raft and the persister.                                                 *)
(***************************************************************************)
\* An entry commits.
RaftCommit(req, maxLen) ==
  /\ Len(log) < maxLen
  /\ log' = Append(log, req)
  /\ UNCHANGED <<kvVars, taskVars, callVars, run,
                 delivered, rfTerm, persisted, raftStateSize>>

\* An election.
RaftElection ==
  /\ rfTerm < MaxTerm
  /\ rfTerm' = rfTerm + 1
  /\ UNCHANGED <<kvVars, taskVars, callVars, run,
                 log, delivered, persisted, raftStateSize>>

\* A mutant: nobody is woken.
BroadcastNobody(pc) == pc

\* cond.Broadcast(): every call blocked in cond.Wait() becomes runnable.
Broadcast(pc) == [h \in Handlers |-> IF pc[h] = "waiting" THEN "woken" ELSE pc[h]]

(***************************************************************************)
(* applyRoutine.                                                           *)
(***************************************************************************)
\* A mutant: the loop does not test killed().
ApplierCheckForever ==
  /\ run = "up"
  /\ apc = "check"
  /\ apc' = "recv"
  /\ UNCHANGED <<kvVars, applyMsg, bpc, sleep, callVars, envVars, run>>

\* for !kv.killed()
ApplierCheck ==
  /\ run = "up"
  /\ apc = "check"
  /\ apc' = IF dead THEN "exit" ELSE "recv"
  /\ UNCHANGED <<kvVars, applyMsg, bpc, sleep, callVars, envVars, run>>

\* applyMsg := <-kv.applyCh, the next entry of the log.
ApplierRecvCommand(size) ==
  /\ run = "up"
  /\ apc = "recv"
  /\ delivered < Len(log)
  /\ applyMsg' = CommandMsg(log[delivered + 1], delivered + 1)
  /\ delivered' = delivered + 1
  /\ raftStateSize' = size
  /\ apc' = "lock"
  /\ UNCHANGED <<kvVars, bpc, sleep, callVars, run, log, rfTerm, persisted>>

\* applyMsg := <-kv.applyCh, a snapshot of a replica that has applied
\* snapshotIndex entries, or bytes that were damaged.
ApplierRecvSnapshot(snapshotIndex, damaged) ==
  /\ run = "up"
  /\ apc = "recv"
  /\ snapshotIndex \in 1..Len(log)
  /\ applyMsg' = SnapshotMsg(IF damaged THEN CorruptBytes
                             ELSE SnapshotBytes(Replay(log, snapshotIndex)),
                             rfTerm, snapshotIndex)
  /\ apc' = "lock"
  /\ UNCHANGED <<kvVars, bpc, sleep, callVars, run, envVars>>

\* kv.mu.Lock()
ApplierLock ==
  /\ run = "up"
  /\ apc = "lock"
  /\ mu = "free"
  /\ mu' = "applier"
  /\ apc' = "apply"
  /\ UNCHANGED <<state, index, applied, term, dead, maxraftstate,
                 applyMsg, bpc, sleep, callVars, envVars, run>>

\* Lines 101-128 and kv.mu.Unlock(), for a Command message.
ApplierCommand ==
  /\ run = "up"
  /\ apc = "apply"
  /\ applyMsg.CommandValid
  /\ LET s == ApplyCommand(Maps, applyMsg.Command, applyMsg.CommandIndex)
     IN /\ state' = s.State
        /\ index' = s.Index
        /\ applied' = s.Applied
        /\ persisted' =
             IF ShouldSnapshot(maxraftstate, raftStateSize)
             THEN [index |-> applyMsg.CommandIndex, bytes |-> SnapshotBytes(s)]
             ELSE persisted
  /\ hpc' = Broadcast(hpc)
  /\ mu' = "free"
  /\ apc' = "check"
  /\ applyMsg' = NoMsg
  /\ UNCHANGED <<term, dead, maxraftstate, bpc, sleep, hreq, hidx, timer,
                 reply, run, log, delivered, rfTerm, raftStateSize>>

\* rf.CondInstallSnapshot may accept a snapshot that is ahead of what this
\* replica has been handed.
CondInstallSnapshot(snapshotIndex, ok) == ok => snapshotIndex > delivered

\* Lines 130-138 and kv.mu.Unlock(), for a snapshot message.
ApplierSnapshot(ok) ==
  /\ run = "up"
  /\ apc = "apply"
  /\ applyMsg.SnapshotValid
  /\ CondInstallSnapshot(applyMsg.SnapshotIndex, ok)
  /\ IF ok
     THEN /\ delivered' = applyMsg.SnapshotIndex
          /\ persisted' = [index |-> applyMsg.SnapshotIndex,
                           bytes |-> applyMsg.Snapshot]
          /\ IF ReadPersistPanics(applyMsg.Snapshot)
             THEN /\ run' = "aborted"
                  /\ UNCHANGED <<state, index, applied, mu, apc, applyMsg>>
             ELSE /\ state' = ReadPersist(Maps, applyMsg.Snapshot).State
                  /\ index' = ReadPersist(Maps, applyMsg.Snapshot).Index
                  /\ applied' = ReadPersist(Maps, applyMsg.Snapshot).Applied
                  /\ mu' = "free"
                  /\ apc' = "check"
                  /\ applyMsg' = NoMsg
                  /\ UNCHANGED run
     ELSE /\ mu' = "free"
          /\ apc' = "check"
          /\ applyMsg' = NoMsg
          /\ UNCHANGED <<state, index, applied, run, delivered, persisted>>
  /\ UNCHANGED <<term, dead, maxraftstate, bpc, sleep, callVars,
                 log, rfTerm, raftStateSize>>

(***************************************************************************)
(* broadcastRoutine.                                                       *)
(***************************************************************************)
\* One turn of the loop, when its sleep is over.
BroadcastTick ==
  /\ run = "up"
  /\ bpc = "run"
  /\ sleep = 0
  /\ IF dead
     THEN /\ bpc' = "exit"
          /\ UNCHANGED <<sleep, hpc>>
     ELSE /\ hpc' = Broadcast(hpc)
          /\ sleep' = SleepMs
          /\ UNCHANGED bpc
  /\ UNCHANGED <<kvVars, apc, applyMsg, hreq, hidx, timer, reply, envVars, run>>

\* Kill()
Kill ==
  /\ run = "up"
  /\ ~dead
  /\ dead' = TRUE
  /\ UNCHANGED <<state, index, applied, term, maxraftstate, mu,
                 taskVars, callVars, envVars, run>>

(***************************************************************************)
(* Get and PutAppend.  Both run the same protocol; a Get also reads.       *)
(***************************************************************************)
\* kv.mu.Lock(), with the arguments of the call.
HandlerLock(h, req) ==
  /\ run = "up"
  /\ hpc[h] = "idle"
  /\ mu = "free"
  /\ mu' = h
  /\ hpc' = [hpc EXCEPT ![h] = "locked"]
  /\ hreq' = [hreq EXCEPT ![h] = req]
  /\ UNCHANGED <<state, index, applied, term, dead, maxraftstate,
                 taskVars, hidx, timer, reply, envVars, run>>

\* A mutant: a term equal to the recorded one is rejected too.
FastRejectAtLeast(startTerm, isLeader, lastTerm) ==
  ~isLeader \/ startTerm >= lastTerm

\* if !isLeader || term > kv.term
FastReject(startTerm, isLeader, lastTerm) == ~isLeader \/ startTerm > lastTerm

\* for (kv.index[index] == 0)
Unpopulated(ix, position) == Lookup(ix, position, 0) = 0

\* time.Now().After(timeout)
TimedOut(elapsed) == elapsed > TimeoutMs

\* A mutant: the id at the position is not compared with the call's id.
DecideNoCompare(req, position, ix, st) ==
  IF req.Op = "Get"
  THEN IF req.Key \in DOMAIN st
       THEN [Err |-> "OK", Value |-> st[req.Key]]
       ELSE [Err |-> "ErrNoKey", Value |-> ""]
  ELSE [Err |-> "OK", Value |-> ""]

\* A mutant: Get ignores the ok of value, ok := kv.state[key].
DecideIgnoreOk(req, position, ix, st) ==
  IF Lookup(ix, position, 0) # req.Id
  THEN [Err |-> "ErrWrongLeader", Value |-> ""]
  ELSE IF req.Op = "Get"
       THEN [Err |-> "OK", Value |-> Lookup(st, req.Key, "")]
       ELSE [Err |-> "OK", Value |-> ""]

\* Lines 176-190 of Get, lines 229-235 of PutAppend.
Decide(req, position, ix, st) ==
  IF Lookup(ix, position, 0) # req.Id
  THEN [Err |-> "ErrWrongLeader", Value |-> ""]
  ELSE IF req.Op = "Get"
       THEN IF req.Key \in DOMAIN st
            THEN [Err |-> "OK", Value |-> st[req.Key]]
            ELSE [Err |-> "ErrNoKey", Value |-> ""]
       ELSE [Err |-> "OK", Value |-> ""]

\* The call returns r; the deferred kv.mu.Unlock() runs.
Return(h, r) ==
  /\ reply' = [reply EXCEPT ![h] = r]
  /\ hpc' = [hpc EXCEPT ![h] = "done"]
  /\ mu' = "free"

\* A mutant: the call keeps kv.mu while it is blocked.
LoopHeadKeepLock(h, position) ==
  IF Unpopulated(index, position)
  THEN /\ hpc' = [hpc EXCEPT ![h] = "waiting"]
       /\ UNCHANGED <<mu, reply>>
  ELSE Return(h, Decide(hreq[h], position, index, state))

\* The head of the loop: cond.Wait() while the position is unpopulated,
\* the rest of the call once it is populated.
LoopHead(h, position) ==
  IF Unpopulated(index, position)
  THEN /\ hpc' = [hpc EXCEPT ![h] = "waiting"]
       /\ mu' = "free"
       /\ UNCHANGED reply
  ELSE Return(h, Decide(hreq[h], position, index, state))

\* rf.Start by a replica that is not leader gives no index.
NoIndex == 0 - 1

\* rf.Start(command) and what follows it up to the first cond.Wait().
HandlerStart(h, isLeader, position) ==
  /\ run = "up"
  /\ hpc[h] = "locked"
  /\ isLeader => rfTerm >= 1 /\ position > delivered
  /\ ~isLeader => position = NoIndex
  /\ IF FastReject(rfTerm, isLeader, term)
     THEN /\ term' = rfTerm
          /\ Return(h, [Err |-> "ErrWrongLeader", Value |-> ""])
          /\ UNCHANGED <<hidx, timer>>
     ELSE /\ hidx' = [hidx EXCEPT ![h] = position]
          /\ timer' = [timer EXCEPT ![h] = 0]
          /\ LoopHead(h, position)
          /\ UNCHANGED term
  /\ UNCHANGED <<state, index, applied, dead, maxraftstate,
                 taskVars, hreq, envVars, run>>

\* A mutant: cond.Wait() returns without kv.mu.
HandlerWakeNoLock(h) ==
  /\ run = "up"
  /\ hpc[h] = "woken"
  /\ mu' = h
  /\ hpc' = [hpc EXCEPT ![h] = "check"]
  /\ UNCHANGED <<state, index, applied, term, dead, maxraftstate,
                 taskVars, hreq, hidx, timer, reply, envVars, run>>

\* cond.Wait() returns: the call has kv.mu again.
HandlerWake(h) ==
  /\ run = "up"
  /\ hpc[h] = "woken"
  /\ mu = "free"
  /\ mu' = h
  /\ hpc' = [hpc EXCEPT ![h] = "check"]
  /\ UNCHANGED <<state, index, applied, term, dead, maxraftstate,
                 taskVars, hreq, hidx, timer, reply, envVars, run>>

\* if time.Now().After(timeout) { ... return }, then the head of the loop.
HandlerCheck(h) ==
  /\ run = "up"
  /\ hpc[h] = "check"
  /\ IF TimedOut(timer[h])
     THEN Return(h, [Err |-> "ErrWrongLeader", Value |-> ""])
     ELSE LoopHead(h, hidx[h])
  /\ UNCHANGED <<state, index, applied, term, dead, maxraftstate,
                 taskVars, hreq, hidx, timer, envVars, run>>

\* The caller has the reply.
HandlerDone(h) ==
  /\ run = "up"
  /\ hpc[h] = "done"
  /\ hpc' = [hpc EXCEPT ![h] = "idle"]
  /\ hreq' = [hreq EXCEPT ![h] = ZeroOp]
  /\ hidx' = [hidx EXCEPT ![h] = 0]
  /\ reply' = [reply EXCEPT ![h] = NoReply]
  /\ timer' = [timer EXCEPT ![h] = 0]
  /\ UNCHANGED <<kvVars, taskVars, envVars, run>>

(***************************************************************************)
(* Time.                                                                   *)
(***************************************************************************)
\* A call whose timeout is set and which has not returned.
Timed(h) == hpc[h] \in {"waiting", "woken", "check"}

\* Time passes.  broadcastRoutine does not oversleep.
AdvanceTime ==
  /\ run = "up"
  /\ bpc = "run" => sleep > 0
  /\ \/ bpc = "run"
     \/ \E h \in Handlers : Timed(h) /\ timer[h] < TimerCap
  /\ sleep' = IF bpc = "run" THEN sleep - Quantum ELSE sleep
  /\ timer' = [h \in Handlers |->
                 IF Timed(h) /\ timer[h] < TimerCap
                 THEN timer[h] + Quantum ELSE timer[h]]
  /\ UNCHANGED <<kvVars, apc, applyMsg, bpc, hpc, hreq, hidx, reply,
                 envVars, run>>

(***************************************************************************)
(* The process stops and StartKVServer runs again on the same persister.   *)
(***************************************************************************)
Restart ==
  /\ apc' = "check"
  /\ applyMsg' = NoMsg
  /\ mu' = "free"
  /\ dead' = FALSE
  /\ delivered' = persisted.index
  /\ term' = InitialTerm
  /\ bpc' = "run"
  /\ sleep' = 0
  /\ hpc' = [h \in Handlers |-> "idle"]
  /\ hreq' = [h \in Handlers |-> ZeroOp]
  /\ hidx' = [h \in Handlers |-> 0]
  /\ timer' = [h \in Handlers |-> 0]
  /\ reply' = [h \in Handlers |-> NoReply]
  /\ state' = ReadPersist(EmptyStore, persisted.bytes).State
  /\ index' = ReadPersist(EmptyStore, persisted.bytes).Index
  /\ applied' = ReadPersist(EmptyStore, persisted.bytes).Applied
  /\ run' = IF ReadPersistPanics(persisted.bytes) THEN "aborted" ELSE "up"
  /\ UNCHANGED <<maxraftstate, log, rfTerm, persisted, raftStateSize>>

(***************************************************************************)
(* The service with one client call at a time in flight, started without   *)
(* snapshots (maxraftstate = -1) on a replica whose Raft is in the term    *)
(* kv.term starts with; snapshots of replicas that are ahead still arrive. *)
(* The calls read and write only keys of CallRequests.                     *)
(***************************************************************************)
Callers == {"h1"}

CallRequests == {r \in Requests : r.Key = "x"}

InitCalls ==
  /\ maxraftstate = NoSnapshot
  /\ log = << >>
  /\ delivered = 0
  /\ persisted = [index |-> 0, bytes |-> << >>]
  /\ raftStateSize = 1
  /\ Started(<< >>)

Init ==
  /\ InitCalls
  /\ rfTerm = InitialTerm

Next ==
  \/ \E req \in CallRequests : RaftCommit(req, MaxCallLog)
  \/ ApplierCheck
  \/ ApplierRecvCommand(raftStateSize)
  \/ \E snapshotIndex \in 1..MaxCallLog :
       snapshotIndex > delivered /\ ApplierRecvSnapshot(snapshotIndex, FALSE)
  \/ ApplierLock
  \/ ApplierCommand
  \/ \E ok \in BOOLEAN : ApplierSnapshot(ok)
  \/ BroadcastTick
  \/ Kill
  \/ \E h \in Callers, req \in CallRequests : HandlerLock(h, req)
  \/ \E h \in Callers, isLeader \in BOOLEAN,
        position \in {NoIndex} \cup 1..MaxCallLog + 1 :
       HandlerStart(h, isLeader, position)
  \/ \E h \in Callers : HandlerWake(h)
  \/ \E h \in Callers : HandlerCheck(h)
  \/ \E h \in Callers : HandlerDone(h)
  \/ AdvanceTime

Spec == Init /\ [][Next]_vars

(***************************************************************************)
(* The same service from Raft's first term on, with elections, and without *)
(* snapshot messages and Kill.                                             *)
(***************************************************************************)
InitTerm ==
  /\ InitCalls
  /\ rfTerm = 0

NextTerm ==
  \/ \E req \in CallRequests : RaftCommit(req, MaxCallLog)
  \/ RaftElection
  \/ ApplierCheck
  \/ ApplierRecvCommand(raftStateSize)
  \/ ApplierLock
  \/ ApplierCommand
  \/ BroadcastTick
  \/ \E h \in Callers, req \in CallRequests : HandlerLock(h, req)
  \/ \E h \in Callers, isLeader \in BOOLEAN,
        position \in {NoIndex} \cup 1..MaxCallLog + 1 :
       HandlerStart(h, isLeader, position)
  \/ \E h \in Callers : HandlerWake(h)
  \/ \E h \in Callers : HandlerCheck(h)
  \/ \E h \in Callers : HandlerDone(h)
  \/ AdvanceTime

SpecTerm == InitTerm /\ [][NextTerm]_vars

(***************************************************************************)
(* The applier alone, with every threshold, snapshots taken and installed, *)
(* damaged bytes and restarts.  Calls write none of the three maps, so     *)
(* they are left out here.                                                 *)
(***************************************************************************)
NextApply ==
  \/ \E req \in Requests : RaftCommit(req, MaxLog)
  \/ ApplierCheck
  \/ \E size \in Sizes : ApplierRecvCommand(size)
  \/ \E snapshotIndex \in 1..MaxLog, damaged \in BOOLEAN :
       ApplierRecvSnapshot(snapshotIndex, damaged)
  \/ ApplierLock
  \/ ApplierCommand
  \/ \E ok \in BOOLEAN : ApplierSnapshot(ok)
  \/ Kill
  \/ Restart

SpecApply == InitApply /\ [][NextApply]_vars

(***************************************************************************)
(* The service with two calls at a time in flight, both for one request    *)
(* (a call and a retry of it), without snapshots and Kill.  The goroutines *)
(* that can run do run: the scheduler leaves no runnable goroutine behind  *)
(* for ever, sync.Mutex hands the lock to a goroutine that keeps waiting   *)
(* for it (its starvation mode), and time passes.  The clients and Raft    *)
(* owe nothing: no call need arrive, no entry commit.                      *)
(***************************************************************************)
LockRequests == {r \in Requests : r.Id = 1}

NextLock ==
  \/ \E req \in LockRequests : RaftCommit(req, MaxLockLog)
  \/ ApplierCheck
  \/ ApplierRecvCommand(raftStateSize)
  \/ ApplierLock
  \/ ApplierCommand
  \/ BroadcastTick
  \/ \E h \in Handlers, req \in LockRequests : HandlerLock(h, req)
  \/ \E h \in Handlers, isLeader \in BOOLEAN,
        position \in {NoIndex} \cup 1..MaxLockLog + 1 :
       HandlerStart(h, isLeader, position)
  \/ \E h \in Handlers : HandlerWake(h)
  \/ \E h \in Handlers : HandlerCheck(h)
  \/ \E h \in Handlers : HandlerDone(h)
  \/ AdvanceTime

Scheduling ==
  /\ WF_vars(ApplierCheck)
  /\ SF_vars(ApplierLock)
  /\ WF_vars(ApplierCommand)
  /\ WF_vars(BroadcastTick)
  /\ WF_vars(AdvanceTime)
  /\ \A h \in Handlers :
       /\ WF_vars(\E isLeader \in BOOLEAN,
                     position \in {NoIndex} \cup 1..MaxLockLog + 1 :
                    HandlerStart(h, isLeader, position))
       /\ SF_vars(HandlerWake(h))
       /\ WF_vars(HandlerCheck(h))
       /\ WF_vars(HandlerDone(h))

SpecLock == Init /\ [][NextLock]_vars /\ Scheduling

(***************************************************************************)
(* What the claims are stated against.                                     *)
(***************************************************************************)
\* The number of log entries whose Command message the applier is done with
\* or that a snapshot it installed covers.
Processed ==
  IF applyMsg.CommandValid THEN applyMsg.CommandIndex - 1 ELSE delivered

\* The reference: a sequential fold over Command messages in delivery order.
\* Put replaces, Append concatenates onto the value (an absent key is ""),
\* Get changes nothing, an id seen earlier is skipped.
RECURSIVE RefFold(_, _, _)
RefFold(msgs, values, seen) ==
  IF msgs = << >> THEN values
  ELSE LET m == Head(msgs)
           old == IF m.Key \in DOMAIN values THEN values[m.Key] ELSE ""
           new == IF m.Op = "Put" THEN m.Value ELSE old \o m.Value
       IN IF m.Id \in seen \/ m.Op \notin {"Put", "Append"}
          THEN RefFold(Tail(msgs), values, seen \cup {m.Id})
          ELSE RefFold(Tail(msgs),
                       [k \in DOMAIN values \cup {m.Key} |->
                          IF k = m.Key THEN new ELSE values[k]],
                       seen \cup {m.Id})

RefState(n) == RefFold(SubSeq(log, 1, n), << >>, {})

\* The ids of the first n log entries.
IdsUpTo(n) == {log[p].Id : p \in 1..n}

\* The Command message in the applier's hands carries an id that an earlier
\* position carried.
IsRetry == applyMsg.Command.Id \in IdsUpTo(applyMsg.CommandIndex - 1)

(***************************************************************************)
(* C1. Exactly-once application: a Command message whose id was delivered  *)
(* at an earlier position leaves kv.state unchanged; a Put or Append       *)
(* changes kv.state only at the first position that carries its id.        *)
(***************************************************************************)
C1_ExactlyOnce ==
  [][(ApplierCommand /\ IsRetry) => state' = state]_vars

\* An Append has been delivered a second time and the applier is done with it.
C1_Witness ==
  /\ run = "up"
  /\ apc = "check"
  /\ \E p, q \in DOMAIN index :
       /\ p < q
       /\ q = delivered
       /\ log[p].Id = log[q].Id
       /\ log[q].Op = "Append"
       /\ index[q] = log[q].Id

(***************************************************************************)
(* C2. Leader-change detection: a call that was given position P for id I1 *)
(* returns OK or ErrNoKey only when, as it decides, the tracker holds I1   *)
(* at P; when the tracker holds another id at P it returns ErrWrongLeader. *)
(***************************************************************************)
C2_LeaderChangeDetected ==
  [][\A h \in Handlers :
       (hpc[h] \in {"locked", "check"} /\ hpc'[h] = "done") =>
         LET P == hidx'[h]
             I1 == hreq[h].Id
         IN /\ reply'[h].Err \in {"OK", "ErrNoKey", "ErrWrongLeader"}
            /\ reply'[h].Err \in {"OK", "ErrNoKey"}
                 => P \in DOMAIN index /\ index[P] = I1
            /\ (P \in DOMAIN index /\ index[P] # I1)
                 => reply'[h].Err = "ErrWrongLeader"]_vars

\* A call has returned ErrWrongLeader before its timeout because another id
\* was committed at its position.
C2_Witness ==
  \E h \in Handlers :
    /\ hpc[h] = "done"
    /\ reply[h].Err = "ErrWrongLeader"
    /\ timer[h] <= TimeoutMs
    /\ hidx[h] \in DOMAIN index
    /\ index[hidx[h]] \notin {0, hreq[h].Id}

(***************************************************************************)
(* C3. No stale reads: a Get that was given position P and returns OK or   *)
(* ErrNoKey reads a kv.state that holds every write of positions 1..P (it  *)
(* is the reference state of at least P entries); it returns the key's     *)
(* value with OK when the key is present and "" with ErrNoKey when absent. *)
(***************************************************************************)
C3_NoStaleRead ==
  [][\A h \in Handlers :
       (/\ hpc[h] \in {"locked", "check"}
        /\ hpc'[h] = "done"
        /\ hreq[h].Op = "Get"
        /\ reply'[h].Err \in {"OK", "ErrNoKey"}) =>
         LET ref == RefState(Processed)
         IN /\ Processed >= hidx'[h]
            /\ state = ref
            /\ reply'[h] = IF hreq[h].Key \in DOMAIN ref
                           THEN [Err |-> "OK", Value |-> ref[hreq[h].Key]]
                           ELSE [Err |-> "ErrNoKey", Value |-> ""]]_vars

\* A Get committed at position 2 has returned the value written at position 1.
C3_Witness ==
  \E h \in Handlers :
    /\ hpc[h] = "done"
    /\ hreq[h].Op = "Get"
    /\ hidx[h] = 2
    /\ reply[h].Err = "OK"
    /\ reply[h].Value # ""

(***************************************************************************)
(* C4. Order preservation: whenever the service is up, kv.state is the     *)
(* reference fold of the Command messages processed so far, in delivery    *)
(* order; nothing but the delivered sequence enters the result.            *)
(***************************************************************************)
C4_OrderPreserved ==
  run = "up" => state = RefState(Processed)

\* Put(x, "b") then Append(x, "a"): the order shows in the value.
C4_Witness ==
  /\ run = "up"
  /\ Processed >= 2
  /\ Lookup(state, "x", "") = "ba"

(***************************************************************************)
(* C5. Timeout liveness: a call whose position stays unpopulated is not    *)
(* blocked in cond.Wait() for longer than its timeout plus one sleep of    *)
(* broadcastRoutine.                                                       *)
(***************************************************************************)
C5_TimeoutBound ==
  \A h \in Handlers :
    (hpc[h] = "waiting" /\ hidx[h] \notin DOMAIN index)
      => timer[h] <= TimeoutMs + SleepMs

C7_ExactlyOnceAcrossSnapshot ==
  [][/\ ((ApplierSnapshot(TRUE) \/ Restart) /\ run' = "up")
          => /\ state' = RefState(delivered')
             /\ \A id \in IdsUpTo(delivered') : Lookup(applied', id, FALSE)
     /\ (ApplierCommand /\ applyMsg.Command.Id \in IdsUpTo(persisted.index))
          => state' = state]_vars

\* A server that never snapshots installed a snapshot, and was then handed
\* an Append whose id the snapshot covers.
C7_Witness ==
  /\ run = "up"
  /\ apc = "check"
  /\ maxraftstate = NoSnapshot
  /\ persisted.index >= 1
  /\ delivered > persisted.index
  /\ delivered \in DOMAIN index
  /\ log[delivered].Op = "Append"
  /\ log[delivered].Id \in IdsUpTo(persisted.index)

(***************************************************************************)
(* C8. Fast reject: when rf.Start reports that the replica is not leader,  *)
(* or returns a term greater than kv.term, the call returns ErrWrongLeader *)
(* from that step, without waiting, and kv.term becomes the returned term; *)
(* in every other case the call goes on to wait on the position it was     *)
(* given, with kv.term as it was.                                          *)
(***************************************************************************)
C8_FastReject ==
  [][\A h \in Handlers, isLeader \in BOOLEAN,
        position \in {NoIndex} \cup 1..MaxCallLog + 1 :
       HandlerStart(h, isLeader, position) =>
         IF ~isLeader \/ rfTerm > term
         THEN /\ hpc'[h] = "done"
              /\ reply'[h].Err = "ErrWrongLeader"
              /\ term' = rfTerm
         ELSE /\ hpc'[h] = "waiting"
              /\ hidx'[h] = position
              /\ term' = term]_vars

\* A call was rejected at rf.Start and kv.term took the term rf.Start returned.
C8_Witness ==
  \E h \in Handlers :
    /\ hpc[h] = "done"
    /\ reply[h].Err = "ErrWrongLeader"
    /\ hidx[h] = 0
    /\ term = rfTerm
    /\ term # InitialTerm

(***************************************************************************)
(* C9. Snapshot trigger: the step that applies the Command at position P   *)
(* hands Raft a snapshot exactly when the threshold is not -1 and the      *)
(* reported size exceeds it; the snapshot is for position P and decodes to *)
(* the state after P, with the id of P applied and tracker[P] = id.        *)
(***************************************************************************)
C9_SnapshotTrigger ==
  [][ApplierCommand =>
       LET P == applyMsg.CommandIndex
           id == applyMsg.Command.Id
           d == Decode(persisted'.bytes)
       IN IF maxraftstate # NoSnapshot /\ raftStateSize > maxraftstate
          THEN /\ persisted'.index = P
               /\ d.State = RefState(P)
               /\ d.State = state'
               /\ Lookup(d.Applied, id, FALSE)
               /\ P \in DOMAIN d.Index
               /\ d.Index[P] = id
          ELSE persisted' = persisted]_vars

\* The applier has just snapshotted at the position it applied.
C9_Witness ==
  /\ run = "up"
  /\ apc = "check"
  /\ maxraftstate # NoSnapshot
  /\ raftStateSize > maxraftstate
  /\ persisted.index = delivered
  /\ delivered >= 2
  /\ delivered \in DOMAIN index

(***************************************************************************)
(* C10. Snapshot install is all-or-nothing: the step that handles a        *)
(* snapshot message leaves the three maps as they were when Raft rejects   *)
(* the install, and replaces all three by what the bytes decode to when    *)
(* Raft accepts it; bytes that do not decode stop the process with the     *)
(* maps as they were.                                                      *)
(***************************************************************************)
C10_InstallAllOrNothing ==
  [][/\ ApplierSnapshot(FALSE) => Maps' = Maps
     /\ ApplierSnapshot(TRUE) =>
          IF DecodeOk(applyMsg.Snapshot)
          THEN Maps' = Decode(applyMsg.Snapshot)
          ELSE run' = "aborted" /\ Maps' = Maps]_vars

\* A server that never snapshots holds what an installed snapshot decoded to,
\* in place of maps that were not empty.
C10_Witness ==
  /\ run = "up"
  /\ apc = "check"
  /\ maxraftstate = NoSnapshot
  /\ persisted.index = delivered
  /\ delivered = Len(log)
  /\ delivered >= 3
  /\ Maps = Decode(persisted.bytes)
  /\ Cardinality(DOMAIN state) = 2

(***************************************************************************)
(* C11. The tracker is append-only: a Command message or a snapshot        *)
(* installation that leaves the service up keeps every entry of kv.index   *)
(* under the id it holds; none is removed, none gets another id.           *)
(***************************************************************************)
C11_TrackerAppendOnly ==
  [][((ApplierCommand \/ \E ok \in BOOLEAN : ApplierSnapshot(ok))
        /\ run' = "up")
       => \A P \in DOMAIN index :
            P \in DOMAIN index' /\ index'[P] = index[P]]_vars

\* A replica that never snapshots holds a complete tracker after it
\* installed a snapshot of two positions and applied the Command that follows.
C11_Witness ==
  /\ run = "up"
  /\ apc = "check"
  /\ maxraftstate = NoSnapshot
  /\ persisted.index = 2
  /\ delivered = 3
  /\ DOMAIN index = 1..3
  /\ \A P \in 1..3 : index[P] = log[P].Id

(***************************************************************************)
(* C12. Every Command message is recorded and announced: the step that     *)
(* handles the Command at position P, taken with kv.mu held and releasing  *)
(* it, leaves kv.index[P] = id and wakes every call blocked in cond.Wait(), *)
(* for a Put, an Append, a Get and an id that was applied before alike.    *)
(***************************************************************************)
C12_RecordAndBroadcast ==
  [][ApplierCommand =>
       LET P == applyMsg.CommandIndex
           id == applyMsg.Command.Id
       IN /\ mu = "applier"
          /\ mu' = "free"
          /\ P \in DOMAIN index'
          /\ index'[P] = id
          /\ \A h \in Handlers : hpc[h] = "waiting" => hpc'[h] = "woken"]_vars

\* With broadcastRoutine gone, a call was woken within the instant it began
\* to wait, by a Command whose id was applied before.
C12_Witness ==
  \E h \in Handlers :
    /\ hpc[h] = "woken"
    /\ bpc = "exit"
    /\ timer[h] = 0
    /\ hidx[h] = 2
    /\ delivered = 2
    /\ apc = "check"
    /\ 2 \in DOMAIN index
    /\ log[1].Id = log[2].Id
    /\ index[2] = log[2].Id

(***************************************************************************)
(* C13. Mutual exclusion: a task that is at a place of its code where it   *)
(* reads or writes kv.state, kv.index or kv.applied (the applier between   *)
(* its Lock and Unlock; a call between Lock and its first cond.Wait() or   *)
(* return, and from the return of cond.Wait() to the next one or to its    *)
(* return) holds kv.mu, so no two tasks are at such places together.       *)
(***************************************************************************)
C13_MutualExclusion ==
  /\ apc = "apply" => mu = "applier"
  /\ \A h \in Handlers : hpc[h] \in {"locked", "check"} => mu = h

\* A call that returned from cond.Wait() reads the tracker while the applier,
\* with a message in hand, and the other call, woken too, wait for kv.mu.
C13_Witness ==
  /\ hpc["h1"] = "check"
  /\ mu = "h1"
  /\ hpc["h2"] = "woken"
  /\ apc = "lock"

(***************************************************************************)
(* C14. No blocking between the applier and the calls: the applier does    *)
(* not hold kv.mu while it waits for a message, a call does not hold it    *)
(* while it is blocked in cond.Wait(), whoever holds it can take its next   *)
(* step, and a message the applier has received is applied in the end,     *)
(* however many calls are blocked.                                         *)
(***************************************************************************)
C14_NoBlocking ==
  /\ [](/\ apc \in {"check", "recv", "lock", "exit"} => mu # "applier"
        /\ \A h \in Handlers :
             hpc[h] \in {"waiting", "woken", "idle", "done"} => mu # h
        /\ mu = "applier" => apc = "apply"
        /\ \A h \in Handlers : mu = h => hpc[h] \in {"locked", "check"})
  /\ (apc = "lock") ~> (apc = "check" /\ delivered \in DOMAIN index)

\* Both calls were blocked on the position after the one whose Command has
\* now been applied, in the instant they began to wait and before
\* broadcastRoutine's turn; both are still waiting to get kv.mu back.
C14_Witness ==
  /\ \A h \in Handlers : hpc[h] = "woken" /\ hidx[h] = 2 /\ timer[h] = 0
  /\ bpc = "run"
  /\ sleep = 0
  /\ apc = "check"
  /\ 1 \in DOMAIN index

(***************************************************************************)
(* C15. Timeouts survive shutdown: a call blocked in cond.Wait() after     *)
(* Kill() is not left blocked for ever, so some task that calls            *)
(* cond.Broadcast() is still running while the call is blocked.            *)
(***************************************************************************)
C15_TimeoutSurvivesKill ==
  \A h \in Handlers :
    (dead /\ hpc[h] = "waiting") => (bpc = "run" \/ apc # "exit")

(***************************************************************************)
(* C16. Shutdown of the background tasks: kv.dead, once set, stays set;    *)
(* with it set, a turn of broadcastRoutine's loop wakes nobody and ends    *)
(* the task, the applier does not go from its loop test to another         *)
(* receive but ends, and it receives a message only in the iteration it    *)
(* was in: at most one message after Kill().                               *)
(***************************************************************************)
C16_Shutdown ==
  [][dead =>
       /\ dead'
       /\ BroadcastTick => (bpc' = "exit" /\ hpc' = hpc)
       /\ bpc = "exit" => bpc' = "exit"
       /\ apc = "check" => apc' \in {"check", "exit"}
       /\ apc = "exit" => apc' = "exit"
       /\ (applyMsg' # applyMsg /\ applyMsg' # NoMsg)
            => (apc = "recv" /\ apc' = "lock")
       /\ apc \in {"lock", "apply"} => apc' \in {"lock", "apply", "check"}]_vars

\* Kill() came while the applier was blocked on kv.applyCh: it has applied
\* the one message that arrived afterwards and ended, with a second entry
\* committed and not received; broadcastRoutine has ended too.
C16_Witness ==
  /\ dead
  /\ apc = "exit"
  /\ bpc = "exit"
  /\ delivered = 1
  /\ 1 \in DOMAIN index
  /\ Len(log) = 2
  /\ \E h \in Handlers : hpc[h] = "waiting" /\ hidx[h] = 2

(***************************************************************************)
(* C17. A decode failure is fatal: readPersist on bytes that do not decode *)
(* (an accepted snapshot message, or the persisted snapshot at startup)    *)
(* stops the process with none of the three maps replaced, and a stopped   *)
(* process applies nothing and receives nothing until it is started again. *)
(***************************************************************************)
C17_DecodeFailureFatal ==
  [][/\ (ApplierSnapshot(TRUE) /\ ~DecodeOk(applyMsg.Snapshot))
          => (run' = "aborted" /\ Maps' = Maps)
     /\ (Restart /\ Len(persisted.bytes) >= 1 /\ ~DecodeOk(persisted.bytes))
          => (run' = "aborted" /\ Maps' = EmptyStore)
     /\ run = "aborted"
          => \/ Restart
             \/ /\ run' = "aborted"
                /\ Maps' = Maps
                /\ applyMsg' = applyMsg
                /\ delivered' = delivered]_vars

\* The process stopped in the applier, on the damaged bytes of a snapshot
\* message Raft accepted; its maps are not empty and there is a committed
\* entry beyond the snapshot that it will not apply.
C17_Witness ==
  /\ run = "aborted"
  /\ apc = "apply"
  /\ applyMsg.SnapshotValid
  /\ applyMsg.Snapshot = CorruptBytes
  /\ persisted.bytes = CorruptBytes
  /\ DOMAIN index # {}
  /\ DOMAIN state # {}
  /\ Len(log) > delivered

(***************************************************************************)
(* C18. A commit before the deadline wins: once kv.index holds a call's    *)
(* own id (not 0) at its position while the call is in its wait loop and   *)
(* its deadline has not passed, that call does not return ErrWrongLeader.  *)
(***************************************************************************)
C18_CommitBeforeDeadlineWins ==
  \A h \in Handlers, P \in 1..MaxLockLog + 1 :
    []((/\ Timed(h)
        /\ hidx[h] = P
        /\ ~TimedOut(timer[h])
        /\ P \in DOMAIN index
        /\ index[P] = hreq[h].Id
        /\ hreq[h].Id # 0)
       => []((hpc[h] = "done" /\ hidx[h] = P)
               => reply[h].Err # "ErrWrongLeader"))

(***************************************************************************)
(* C19. A Get reads at its own position: a Get that was given position P   *)
(* and returns OK or ErrNoKey returns what kv.state held for the key right *)
(* after the Command at P was applied, and the applier has applied nothing *)
(* beyond P when the key is read.                                          *)
(***************************************************************************)
C19_GetReadsAtOwnPosition ==
  [][\A h \in Handlers :
       (/\ hpc[h] \in {"locked", "check"}
        /\ hpc'[h] = "done"
        /\ hreq[h].Op = "Get"
        /\ reply'[h].Err \in {"OK", "ErrNoKey"}) =>
         LET atP == RefState(hidx'[h])
         IN /\ Processed = hidx'[h]
            /\ reply'[h] = IF hreq[h].Key \in DOMAIN atP
                           THEN [Err |-> "OK", Value |-> atP[hreq[h].Key]]
                           ELSE [Err |-> "ErrNoKey", Value |-> ""]]_vars

(***************************************************************************)
(* C20. Every id resolves: a call that finds, on a wake-up before its      *)
(* deadline, its own id recorded at its position returns OK or ErrNoKey    *)
(* from that step, whatever the id, 0 included.                            *)
(***************************************************************************)
C20_EveryIdResolves ==
  [][\A h \in Handlers :
       (/\ HandlerCheck(h)
        /\ ~TimedOut(timer[h])
        /\ hidx[h] \in DOMAIN index
        /\ index[hidx[h]] = hreq[h].Id)
       => (hpc'[h] = "done" /\ reply'[h].Err \in {"OK", "ErrNoKey"})]_vars

====
